---- MODULE Spec2Model ----
(***************************************************************************)
(* A model of sw/airborne/modules/orange_avoider/orange_avoider.c: the     *)
(* obstacle map filled by the ABI callback color_detection_cb, the outer   *)
(* and inner trajectories, and the waypoint state machine of               *)
(* orange_avoider_periodic.                                                *)
(*                                                                         *)
(* Positions are paparazzi fixed-point values (struct EnuCoor_i): a point  *)
(* is <<x, y>> in units of 1/Unit metre.  Float positions of the vehicle   *)
(* and float distances of a detection are drawn from values that lie on    *)
(* that grid, angles from multiples of 90 degrees, where sin and cos are   *)
(* exact, so the float arithmetic of the code is exact integer arithmetic  *)
(* in the model; the one quotient, in buildInnerTrajectory, is truncated   *)
(* toward zero as the conversion to int32_t truncates it.                  *)
(***************************************************************************)
EXTENDS Integers, Sequences, FiniteSets, TLC

(***************************************************************************)
(* Program constants.                                                      *)
(***************************************************************************)
\* 1 << INT32_POS_FRAC: the fixed-point value of 1.0 m (POS_BFP_OF_REAL).
Unit == 256
\* orange_avoider.h: number of outer waypoints (rx_list gives three of them).
OUTER_TRAJECTORY_LENGTH == 3
\* orange_avoider.h: points a segment holds after buildInnerTrajectory.
INNER_TRAJECTORY_LENGTH == 2
\* orange_avoider.h: capacity of a segment (>= INNER_TRAJECTORY_LENGTH).
INNER_TRAJECTORY_SPACE == 3
\* orange_avoider.h: capacity of obstacle_map.
MAX_OBSTACLES_IN_MAP == 2
\* Longest batch (msg->size) of one OBSTACLE_DETECTION message.
MaxBatch == 2

Point == Int \X Int
Zero == <<0, 0>>

OuterIdx == 0 .. (OUTER_TRAJECTORY_LENGTH - 1)
SpaceIdx == 0 .. (INNER_TRAJECTORY_SPACE - 1)
MapIdx == 0 .. (MAX_OBSTACLES_IN_MAP - 1)

\* The value of a uint8_t after an assignment.
U8(v) == v % 256

\* (int32_t) of a float quotient a/b, b > 0: C truncates toward zero.
TruncDiv(a, b) == IF a >= 0 THEN a \div b ELSE -((-a) \div b)

\* pow(ex,2)+pow(ey,2) of two points, in fixed-point units squared.
Dist2(p, q) == (p[1] - q[1]) * (p[1] - q[1]) + (p[2] - q[2]) * (p[2] - q[2])

(***************************************************************************)
(* The environment: poses of the vehicle, detections, optimizer results.   *)
(***************************************************************************)
\* Positions GetPosX()/GetPosY() can give at start-up (fixed-point grid); the
\* second is not a whole number of inner steps away from the outer waypoints.
StartPositions == {<<0, 0>>, <<255, 256>>}
\* Yaw stateGetNedToBodyEulers_f()->psi, in degrees.
Yaws == {0, 90}
\* The distance of an observation that is not a number (it compares false
\* with everything, lines 86 and 90).
NaN == -1
\* One obstacle of an ObstacleMsg: distance in 1/Unit m, headings in degrees.
\* Straight ahead at no distance, at 1.0 m and at no number; 1.0 m at 90
\* degrees.
Observations ==
  [distance : {0, 256, NaN}, left_heading : {0}, right_heading : {0}]
    \cup {[distance |-> 256, left_heading |-> 0, right_heading |-> 180]}

RECURSIVE SeqsUpTo(_, _)
SeqsUpTo(S, n) ==
  IF n = 0 THEN {<<>>}
  ELSE LET shorter == SeqsUpTo(S, n - 1)
       IN shorter \cup {Append(s, e) : s \in {t \in shorter : Len(t) = n - 1}, e \in S}

\* The messages the detector can send: batches of 1 .. MaxBatch observations.
Messages == {m \in SeqsUpTo(Observations, MaxBatch) : Len(m) >= 1}

\* sin and cos of an angle that is a multiple of 90 degrees.
SinDeg(a) == CASE a % 360 = 0 -> 0 [] a % 360 = 90 -> 1
               [] a % 360 = 180 -> 0 [] a % 360 = 270 -> -1
CosDeg(a) == CASE a % 360 = 0 -> 1 [] a % 360 = 90 -> 0
               [] a % 360 = 180 -> -1 [] a % 360 = 270 -> 0

\* optimize_trajectory is an external collaborator: it returns a buffer and
\* sets the size.  Its buffer here: points that differ from their neighbours
\* and from <<0, 0>>.  Its sizes: empty, one point, a full segment.
OptPoint(i) == IF i % 2 = 0 THEN <<512, 512>> ELSE <<512, -512>>
OptBuf == [i \in SpaceIdx |-> OptPoint(i)]
OptSizes == {0, 1, INNER_TRAJECTORY_SPACE}

\* The distances checkWaypointArrival can find (squared, fixed point):
\* 0 m and 0.5 m.
MseSamples == {0, (Unit \div 2) * (Unit \div 2)}

(***************************************************************************)
(* The functions of orange_avoider.c.                                      *)
(***************************************************************************)
\* mse < 0.5 (lines 167, 180): the stored value is the squared distance in
\* fixed-point units, so sqrt(v)/Unit < 1/2.
Arrived(mse) == 4 * mse < Unit * Unit

\* checkObstaclePresence with the loop ending one entry early.
checkObstaclePresence_skipLast(map, n, p) ==
  \E i \in 0 .. (n - 2) : Dist2(map[i], p) < Unit * Unit

\* checkObstaclePresence: TRUE when one of the first n entries of the map is
\* closer than 1.0 to <<x, y>> (the NaN test never fires on integers).
checkObstaclePresence(map, n, p) ==
  \E i \in 0 .. (n - 1) : Dist2(map[i], p) < Unit * Unit

\* Lines 86-88 left out.
ObsDistance_keepsZero(obs) == obs.distance
\* Lines 86-88: a zero distance becomes 0.5.
ObsDistance(obs) == IF obs.distance = 0 THEN Unit \div 2 ELSE obs.distance

\* Lines 89-90: obstacle_mse >= 0.0, which is false of a NaN.
ObsValid(obs) ==
  LET d == ObsDistance(obs)
  IN /\ d # NaN
     /\ d * d + obs.left_heading * obs.left_heading
          + obs.right_heading * obs.right_heading >= 0

\* Lines 93-95: the world position of a detection.
ObsPosition(obs, pos, psi) ==
  LET heading == (obs.left_heading + obs.right_heading) \div 2
      d == ObsDistance(obs)
  IN <<pos[1] + SinDeg(heading + psi) * d, pos[2] + CosDeg(heading + psi) * d>>

\* Line 100 with <= for <.
CanInsert_offByOne(already_in, n) == ~already_in /\ n <= MAX_OBSTACLES_IN_MAP

\* Line 100: the detection is appended.
CanInsert(already_in, n) == ~already_in /\ n < MAX_OBSTACLES_IN_MAP

\* buildOuterTrajectory: rx_list/ry_list = {start, 2, 2, 0, 0} in metres.
RxList(pos) == <<pos[1], 2 * Unit, 2 * Unit, 0, 0>>
RyList(pos) == <<pos[2], 2 * Unit, -2 * Unit, 0, 0>>
buildOuterTrajectory(pos) ==
  [i \in OuterIdx |-> <<RxList(pos)[i + 1], RyList(pos)[i + 1]>>]

\* Line 309 with i in place of (i+1).
InnerPoint_fromStart(outer, o, i) ==
  LET actual_index == IF o = OUTER_TRAJECTORY_LENGTH - 1 THEN 0 ELSE o + 1
      x_diff == outer[actual_index][1] - outer[o][1]
      y_diff == outer[actual_index][2] - outer[o][2]
  IN <<TruncDiv(i * x_diff + INNER_TRAJECTORY_LENGTH * outer[o][1],
                INNER_TRAJECTORY_LENGTH),
       TruncDiv(i * y_diff + INNER_TRAJECTORY_LENGTH * outer[o][2],
                INNER_TRAJECTORY_LENGTH)>>

\* buildInnerTrajectory: the inner points of segment o; the others are kept.
\* Point i is (i+1)*diff/INNER_TRAJECTORY_LENGTH + outer[o], truncated toward
\* zero by the conversion to int32_t (the quotient is taken exactly; the
\* rounding of the float operations is not modelled).
InnerPoint(outer, o, i) ==
  LET actual_index == IF o = OUTER_TRAJECTORY_LENGTH - 1 THEN 0 ELSE o + 1
      x_diff == outer[actual_index][1] - outer[o][1]
      y_diff == outer[actual_index][2] - outer[o][2]
  IN <<TruncDiv((i + 1) * x_diff + INNER_TRAJECTORY_LENGTH * outer[o][1],
                INNER_TRAJECTORY_LENGTH),
       TruncDiv((i + 1) * y_diff + INNER_TRAJECTORY_LENGTH * outer[o][2],
                INNER_TRAJECTORY_LENGTH)>>
\* The loop of line 303 running over the whole capacity of the segment.
buildInnerTrajectory_wholeSpace(ft, outer, o) ==
  [ft EXCEPT ![o].inner_trajectory = [i \in SpaceIdx |-> InnerPoint(outer, o, i)]]

\* Lines 288-313.
buildInnerTrajectory(ft, outer, o) ==
  [ft EXCEPT ![o].inner_trajectory =
     [i \in SpaceIdx |-> IF i < INNER_TRAJECTORY_LENGTH
                         THEN InnerPoint(outer, o, i)
                         ELSE ft[o].inner_trajectory[i]]]

RECURSIVE BuildAllInner(_, _, _)
BuildAllInner(ft, outer, o) ==
  IF o = OUTER_TRAJECTORY_LENGTH THEN ft
  ELSE BuildAllInner(buildInnerTrajectory(ft, outer, o), outer, o + 1)

\* Lines 141-143: every segment gets size INNER_TRAJECTORY_LENGTH.
InitSizes(ft) == [o \in OuterIdx |-> [ft[o] EXCEPT !.size = INNER_TRAJECTORY_LENGTH]]

\* updateTrajectory without the else branch of lines 223-226.
updateTrajectory_noZeroFill(ft, seg, sub, res) ==
  LET sized == [ft EXCEPT ![seg].size = U8(res)]
  IN [sized EXCEPT ![sub].inner_trajectory =
        [i \in SpaceIdx |-> IF i < sized[seg].size THEN OptBuf[i]
                            ELSE ft[sub].inner_trajectory[i]]]

\* updateTrajectory, lines 215-227: the optimizer stores its size through the
\* pointer (the size of segment seg), then the loop writes segment sub.
updateTrajectory(ft, seg, sub, res) ==
  LET sized == [ft EXCEPT ![seg].size = U8(res)]
  IN [sized EXCEPT ![sub].inner_trajectory =
        [i \in SpaceIdx |-> IF i < sized[seg].size THEN OptBuf[i] ELSE Zero]]

\* Line 177 adding two.
InnerAdvance_skip(idx, size) == IF idx < size - 1 THEN U8(idx + 2) ELSE idx
\* Lines 176-178 with the index starting over at the end of the segment.
InnerAdvance_wrap(idx, size) == IF idx < size - 1 THEN U8(idx + 1) ELSE 0

\* Lines 176-178: the inner index moves on up to size - 1.
InnerAdvance(idx, size) == IF idx < size - 1 THEN U8(idx + 1) ELSE idx

\* Lines 184 and 187 taking the segment that starts at the new outer_index.
OuterAdvance_segmentAhead(idx) ==
  IF idx < OUTER_TRAJECTORY_LENGTH - 1
  THEN [outer_index |-> U8(idx + 1), subtraj_index |-> U8(idx + 1)]
  ELSE [outer_index |-> 0, subtraj_index |-> 0]
\* Lines 182-188 without the branch of the last index.
OuterAdvance_noWrap(idx) ==
  [outer_index |-> U8(idx + 1), subtraj_index |-> U8(idx + 1) - 1]

\* Lines 182-188: the outer index and the active segment after an arrival.
OuterAdvance(idx) ==
  IF idx < OUTER_TRAJECTORY_LENGTH - 1
  THEN [outer_index |-> U8(idx + 1), subtraj_index |-> U8(idx + 1) - 1]
  ELSE [outer_index |-> 0, subtraj_index |-> OUTER_TRAJECTORY_LENGTH - 1]

(***************************************************************************)
(* State.                                                                  *)
(***************************************************************************)
VARIABLES
  outer_index, inner_index, subtraj_index,  \* lines 54-56
  trajectory_updated,                         \* line 57
  n_obstacles, obstacle_map_updated,          \* lines 58-59
  initialized,                                \* line 60
  outer_trajectory, full_trajectory,          \* lines 63-64
  obstacle_map,                               \* line 65
  mse_outer, mse_inner,                       \* lines 52-53 (squared, fixed point)
  cb_pc, cb_loc,                              \* color_detection_cb: position and locals
  tick_pc,                                    \* orange_avoider_periodic: position
  written,                                    \* history: fields written in each map slot
  oob_write,                                  \* history: a write past obstacle_map happened
  builds,                                     \* history: runs of the initialisation block
  rebuilt,                                    \* history: segments updateTrajectory has rewritten
  cb_log,                                     \* history: what the last callback did
  tick_log,                                   \* history: what the last tick did
  last                                        \* history: the handler that ran last

vars == <<outer_index, inner_index, subtraj_index, trajectory_updated,
          n_obstacles, obstacle_map_updated, initialized, outer_trajectory,
          full_trajectory, obstacle_map, mse_outer, mse_inner,
          cb_pc, cb_loc, tick_pc, written, oob_write, builds, rebuilt,
          cb_log,
          tick_log, last>>

NoLoc == [msg |-> <<>>, i |-> 0, pos |-> Zero, psi |-> 0, abs |-> Zero]
NoCbLog == [added |-> 0, dup |-> 0, full |-> 0, invalid |-> 0]
NoTickLog == [cmd |-> -1, cmd_size |-> 0, cmd_pt |-> Zero, calls |-> <<>>]

\* The globals are zero-initialised.
Init ==
  /\ outer_index = 0 /\ inner_index = 0 /\ subtraj_index = 0
  /\ trajectory_updated = FALSE
  /\ n_obstacles = 0 /\ obstacle_map_updated = FALSE
  /\ initialized = FALSE
  /\ outer_trajectory = [i \in OuterIdx |-> Zero]
  /\ full_trajectory =
       [o \in OuterIdx |-> [size |-> 0, inner_trajectory |-> [i \in SpaceIdx |-> Zero]]]
  /\ obstacle_map = [i \in MapIdx |-> Zero]
  /\ mse_outer = 0 /\ mse_inner = 0
  /\ cb_pc = "idle" /\ cb_loc = NoLoc
  /\ tick_pc = "idle"
  /\ written = [i \in MapIdx |-> 0]
  /\ oob_write = FALSE
  /\ builds = 0
  /\ rebuilt = {}
  /\ cb_log = NoCbLog
  /\ tick_log = NoTickLog
  /\ last = "none"

(***************************************************************************)
(* color_detection_cb, as steps on the record of what it reads and writes. *)
(***************************************************************************)
CbCur ==
  [n_obstacles |-> n_obstacles, obstacle_map |-> obstacle_map,
   obstacle_map_updated |-> obstacle_map_updated, written |-> written,
   oob_write |-> oob_write, cb_log |-> cb_log]

CbAssign(st) ==
  /\ n_obstacles' = st.n_obstacles
  /\ obstacle_map' = st.obstacle_map
  /\ obstacle_map_updated' = st.obstacle_map_updated
  /\ written' = st.written
  /\ oob_write' = st.oob_write
  /\ cb_log' = st.cb_log

\* Lines 96 and 100: what becomes of the detection at position p.
CbDecision(st, obs, p) ==
  LET already_in == checkObstaclePresence(st.obstacle_map, st.n_obstacles, p)
  IN IF ~ObsValid(obs) THEN "invalid"
     ELSE IF CanInsert(already_in, st.n_obstacles) THEN "insert"
     ELSE IF already_in THEN "dup" ELSE "full"

\* A rejected detection is counted.
CbTally(log, what) ==
  IF what = "dup" THEN [log EXCEPT !.dup = @ + 1]
  ELSE IF what = "full" THEN [log EXCEPT !.full = @ + 1]
  ELSE [log EXCEPT !.invalid = @ + 1]

\* Line 108 moved out of the if of line 100.
CbCount_setsFlag(st, what) ==
  [st EXCEPT !.cb_log = CbTally(@, what), !.obstacle_map_updated = TRUE]

\* Lines 90 and 100 not taken: nothing of the program changes.
CbCount(st, what) == [st EXCEPT !.cb_log = CbTally(@, what)]

\* Line 104.
CbIncrement(st) == [st EXCEPT !.n_obstacles = U8(@ + 1)]

\* Lines 106 and 107 writing obstacle_map[0].
CbWrite_firstSlot(st, p, c) ==
  [st EXCEPT !.obstacle_map[0][c] = p[c], !.written[0] = @ + 1]
\* Lines 106 and 107: one coordinate (c = 1 for x, 2 for y) of the new slot.
CbWrite(st, p, c) ==
  LET slot == st.n_obstacles - 1
  IN IF slot \in MapIdx
     THEN [st EXCEPT !.obstacle_map[slot][c] = p[c], !.written[slot] = @ + 1]
     ELSE [st EXCEPT !.oob_write = TRUE]

\* Line 108.
CbSetFlag(st) ==
  [st EXCEPT !.obstacle_map_updated = TRUE, !.cb_log.added = @ + 1]

\* Lines 104-108 in one piece.
CbInsert(st, p) == CbSetFlag(CbWrite(CbWrite(CbIncrement(st), p, 1), p, 2))

\* The body of the loop of line 84 for one observation.
CbObservation(st, obs, pos, psi) ==
  LET p == ObsPosition(obs, pos, psi)
      what == CbDecision(st, obs, p)
  IN IF what = "insert" THEN CbInsert(st, p) ELSE CbCount(st, what)

RECURSIVE CbLoop(_, _, _, _, _)
CbLoop(st, msg, i, pos, psi) ==
  IF i > Len(msg) THEN st
  ELSE CbLoop(CbObservation(st, msg[i], pos, psi), msg, i + 1, pos, psi)

\* The whole callback on one message.
color_detection_cb(msg, pos, psi) ==
  /\ cb_pc = "idle" /\ tick_pc = "idle"
  /\ CbAssign(CbLoop([CbCur EXCEPT !.cb_log = NoCbLog], msg, 1, pos, psi))
  /\ last' = "cb"
  /\ UNCHANGED <<outer_index, inner_index, subtraj_index, trajectory_updated,
                 initialized, outer_trajectory, full_trajectory, mse_outer,
                 mse_inner, cb_pc, cb_loc, tick_pc, builds, rebuilt,
                 tick_log>>

(***************************************************************************)
(* orange_avoider_periodic, as steps on the record of what it reads and    *)
(* writes.                                                                 *)
(***************************************************************************)
TickCur ==
  [outer_index |-> outer_index, inner_index |-> inner_index,
   subtraj_index |-> subtraj_index, trajectory_updated |-> trajectory_updated,
   obstacle_map_updated |-> obstacle_map_updated, initialized |-> initialized,
   outer_trajectory |-> outer_trajectory, full_trajectory |-> full_trajectory,
   mse_outer |-> mse_outer, mse_inner |-> mse_inner,
   builds |-> builds, rebuilt |-> rebuilt, tick_log |-> tick_log]

TickAssign(st) ==
  /\ outer_index' = st.outer_index
  /\ inner_index' = st.inner_index
  /\ subtraj_index' = st.subtraj_index
  /\ trajectory_updated' = st.trajectory_updated
  /\ obstacle_map_updated' = st.obstacle_map_updated
  /\ initialized' = st.initialized
  /\ outer_trajectory' = st.outer_trajectory
  /\ full_trajectory' = st.full_trajectory
  /\ mse_outer' = st.mse_outer
  /\ mse_inner' = st.mse_inner
  /\ builds' = st.builds
  /\ rebuilt' = st.rebuilt
  /\ tick_log' = st.tick_log

\* Line 139 without the test of initialized.
NeedsInit_always(is_initialized) == TRUE

\* Line 139: the initialisation block runs.
NeedsInit(is_initialized) == ~is_initialized

\* Lines 139-155.
TickInit(st, pos) ==
  IF NeedsInit(st.initialized)
  THEN LET outer == buildOuterTrajectory(pos)
       IN [st EXCEPT !.outer_trajectory = outer,
                     !.full_trajectory = BuildAllInner(InitSizes(@), outer, 0),
                     !.initialized = TRUE,
                     !.builds = @ + 1]
  ELSE st

\* Lines 158-159: checkWaypointArrival finds the distances mo and mi.
TickArrival(st, mo, mi) == [st EXCEPT !.mse_outer = mo, !.mse_inner = mi]

\* What one call of updateTrajectory (line 163 or line 200) did: the segment,
\* the obstacle count handed to the optimizer (line 215), whether the map
\* entries it counts were all written, the result and the segment after it.
CallRecord(at, st, n, wr, res, ft) ==
  [at |-> at, seg |-> st.subtraj_index, n |-> n,
   complete |-> \A i \in 0 .. (n - 1) : i \in MapIdx => wr[i] = 2,
   res |-> res, after |-> ft[st.subtraj_index]]

\* Line 163 followed by inner_index = 0, as after line 200.
TickRebuildStep_resetsInner(st, res, n, wr) ==
  LET ft == updateTrajectory(st.full_trajectory, st.subtraj_index, st.subtraj_index, res)
  IN [st EXCEPT !.full_trajectory = ft,
                !.inner_index = 0,
                !.rebuilt = @ \cup {st.subtraj_index},
                !.tick_log.calls = Append(@, CallRecord("obstacle", st, n, wr, res, ft))]
\* Line 163 keeping the value updateTrajectory returns, as line 200 does.
TickRebuildStep_setsUpdated(st, res, n, wr) ==
  LET ft == updateTrajectory(st.full_trajectory, st.subtraj_index, st.subtraj_index, res)
  IN [st EXCEPT !.full_trajectory = ft,
                !.trajectory_updated = TRUE,
                !.rebuilt = @ \cup {st.subtraj_index},
                !.tick_log.calls = Append(@, CallRecord("obstacle", st, n, wr, res, ft))]
\* Line 163: the rebuild of the active segment; n and wr are n_obstacles and
\* the map's state when the optimizer reads them.
TickRebuildStep(st, res, n, wr) ==
  LET ft == updateTrajectory(st.full_trajectory, st.subtraj_index, st.subtraj_index, res)
  IN [st EXCEPT !.full_trajectory = ft,
                !.rebuilt = @ \cup {st.subtraj_index},
                !.tick_log.calls = Append(@, CallRecord("obstacle", st, n, wr, res, ft))]

\* Line 164.
TickClearStep(st) == [st EXCEPT !.obstacle_map_updated = FALSE]

\* Lines 167-178: the inner waypoint.
TickInner(st) ==
  IF Arrived(st.mse_inner) /\ st.trajectory_updated
  THEN LET seg == st.full_trajectory[st.subtraj_index]
       IN [st EXCEPT !.tick_log.cmd_pt = seg.inner_trajectory[st.inner_index],
                     !.inner_index = InnerAdvance(st.inner_index, seg.size),
                     !.tick_log.cmd = st.inner_index,
                     !.tick_log.cmd_size = seg.size]
  ELSE st

\* Lines 180-202: the outer waypoint.
TickOuter(st, res, n, wr) ==
  IF Arrived(st.mse_outer)
  THEN LET adv == OuterAdvance(st.outer_index)
           moved == [st EXCEPT !.outer_index = adv.outer_index,
                               !.subtraj_index = adv.subtraj_index,
                               !.inner_index = 0]
           ft == updateTrajectory(moved.full_trajectory, moved.subtraj_index,
                                  moved.subtraj_index, res)
       IN [moved EXCEPT !.full_trajectory = ft,
                        !.trajectory_updated = TRUE,
                        !.rebuilt = @ \cup {moved.subtraj_index},
                        !.tick_log.calls =
                           Append(@, CallRecord("advance", moved, n, wr, res, ft))]
  ELSE st

\* Lines 139-159.
TickBeginStep(st, pos, mo, mi) ==
  TickArrival(TickInit([st EXCEPT !.tick_log = NoTickLog], pos), mo, mi)

\* Lines 162-165.
TickObstacle(st, res, n, wr) ==
  IF st.obstacle_map_updated THEN TickClearStep(TickRebuildStep(st, res, n, wr)) ELSE st

\* Lines 167-202.
TickNavStep(st, res, n, wr) == TickOuter(TickInner(st), res, n, wr)

\* The whole tick: pos is the vehicle's position, mo and mi its distances to
\* WP_OUTER and WP_INNER, res1 and res2 the sizes the optimizer answers to
\* the call of line 163 and to the call of line 200.
orange_avoider_periodic(pos, mo, mi, res1, res2) ==
  /\ cb_pc = "idle" /\ tick_pc = "idle"
  /\ TickAssign(TickNavStep(TickObstacle(TickBeginStep(TickCur, pos, mo, mi),
                                         res1, n_obstacles, written),
                            res2, n_obstacles, written))
  /\ last' = "tick"
  /\ UNCHANGED <<n_obstacles, obstacle_map, cb_pc, cb_loc, tick_pc, written,
                 oob_write, cb_log>>

\* Where the vehicle is when a message arrives.
DetectionPositions == {Zero}

\* The optimizer's answers to a call that is made (none is drawn for a call
\* that is not made).
Answers(called, sizes) == IF called THEN sizes ELSE {0}

\* The vehicle's position matters to a tick that reads it (line 267).
PositionsRead(reads) == IF reads THEN StartPositions ELSE {Zero}

\* A tick of a vehicle at one of starts, the optimizer answering from sizes,
\* the distances being in mses.
TickAt(starts, sizes, mses) ==
  \E pos \in starts, mo, mi \in mses :
    \E res1 \in Answers(obstacle_map_updated, sizes) :
      \E res2 \in Answers(Arrived(mo), sizes) :
        orange_avoider_periodic(pos, mo, mi, res1, res2)

\* A tick, the optimizer answering from sizes, the distances being in mses.
Tick(sizes, mses) == TickAt(PositionsRead(NeedsInit(initialized)), sizes, mses)

\* A message out of msgs arrives, the vehicle's yaw being one of yaws.
Callback(msgs, yaws) ==
  \E msg \in msgs, pos \in DetectionPositions, psi \in yaws :
    color_detection_cb(msg, pos, psi)

\* Single detections at 1.0 m straight ahead.
NavMessages == {m \in Messages : Len(m) = 1 /\ m[1].distance = Unit /\ m[1].right_heading = 0}

\* The navigation under every answer of the optimizer and every arrival,
\* with the detections of NavMessages.
Next == Tick(OptSizes, MseSamples) \/ Callback(NavMessages, Yaws)

Spec == Init /\ [][Next]_vars

\* The obstacle map under every message, with a vehicle that starts at the
\* origin and stays 0.5 m from its waypoints, and an optimizer that fills the
\* segment.
MapNext ==
  \/ TickAt({Zero}, {INNER_TRAJECTORY_SPACE}, {(Unit \div 2) * (Unit \div 2)})
  \/ Callback(Messages, Yaws)

SpecMap == Init /\ [][MapNext]_vars

(***************************************************************************)
(* The two handlers running in different threads (lines 68-72): the        *)
(* callback statement by statement, the tick in the pieces between which   *)
(* it reads or writes what the callback writes.                            *)
(***************************************************************************)
CbKeepsTick ==
  UNCHANGED <<outer_index, inner_index, subtraj_index, trajectory_updated,
              initialized, outer_trajectory, full_trajectory, mse_outer,
              mse_inner, tick_pc, builds, rebuilt, tick_log>>

\* The callback is entered with a message, the vehicle being at one of poss.
CbBeginAt(poss, msgs, yaws) ==
  \E msg \in msgs, pos \in poss, psi \in yaws :
    /\ cb_pc = "idle"
    /\ cb_pc' = "check"
    /\ cb_loc' = [msg |-> msg, i |-> 1, pos |-> pos, psi |-> psi, abs |-> Zero]
    /\ CbAssign([CbCur EXCEPT !.cb_log = NoCbLog])
    /\ last' = "cb"
    /\ CbKeepsTick

\* Lines 84-100 for observation i: up to the decision of line 100.
CbCheck ==
  /\ cb_pc = "check" /\ cb_loc.i <= Len(cb_loc.msg)
  /\ LET p == ObsPosition(cb_loc.msg[cb_loc.i], cb_loc.pos, cb_loc.psi)
         what == CbDecision(CbCur, cb_loc.msg[cb_loc.i], p)
     IN IF what = "insert"
        THEN /\ cb_pc' = "incr"
             /\ cb_loc' = [cb_loc EXCEPT !.abs = p]
             /\ CbAssign(CbCur)
        ELSE /\ cb_pc' = "check"
             /\ cb_loc' = [cb_loc EXCEPT !.i = @ + 1]
             /\ CbAssign(CbCount(CbCur, what))
  /\ UNCHANGED last
  /\ CbKeepsTick

\* Line 104.
CbIncr ==
  /\ cb_pc = "incr"
  /\ cb_pc' = "write_x"
  /\ CbAssign(CbIncrement(CbCur))
  /\ UNCHANGED <<cb_loc, last>>
  /\ CbKeepsTick

\* Line 106.
CbWriteX ==
  /\ cb_pc = "write_x"
  /\ cb_pc' = "write_y"
  /\ CbAssign(CbWrite(CbCur, cb_loc.abs, 1))
  /\ UNCHANGED <<cb_loc, last>>
  /\ CbKeepsTick

\* Line 107.
CbWriteY ==
  /\ cb_pc = "write_y"
  /\ cb_pc' = "set_flag"
  /\ CbAssign(CbWrite(CbCur, cb_loc.abs, 2))
  /\ UNCHANGED <<cb_loc, last>>
  /\ CbKeepsTick

\* Line 108, and on to the next observation.
CbFlag ==
  /\ cb_pc = "set_flag"
  /\ cb_pc' = "check"
  /\ cb_loc' = [cb_loc EXCEPT !.i = @ + 1]
  /\ CbAssign(CbSetFlag(CbCur))
  /\ UNCHANGED last
  /\ CbKeepsTick

\* The loop of line 84 ends.
CbEnd ==
  /\ cb_pc = "check" /\ cb_loc.i > Len(cb_loc.msg)
  /\ cb_pc' = "idle"
  /\ cb_loc' = NoLoc
  /\ CbAssign(CbCur)
  /\ UNCHANGED last
  /\ CbKeepsTick

CbBegin(msgs, yaws) == CbBeginAt(DetectionPositions, msgs, yaws)

TickKeepsCb ==
  UNCHANGED <<n_obstacles, obstacle_map, cb_pc, cb_loc, written, oob_write, cb_log>>

\* Lines 139-162: up to the test of obstacle_map_updated.
TickBegin(mses) ==
  \E pos \in PositionsRead(NeedsInit(initialized)), mo, mi \in mses :
    /\ tick_pc = "idle"
    /\ tick_pc' = IF obstacle_map_updated THEN "rebuild" ELSE "nav"
    /\ TickAssign(TickBeginStep(TickCur, pos, mo, mi))
    /\ last' = "tick"
    /\ TickKeepsCb

\* Line 163.
TickRebuild(sizes) ==
  \E res \in sizes :
    /\ tick_pc = "rebuild"
    /\ tick_pc' = "clear"
    /\ TickAssign(TickRebuildStep(TickCur, res, n_obstacles, written))
    /\ UNCHANGED last
    /\ TickKeepsCb

\* Line 164.
TickClear ==
  /\ tick_pc = "clear"
  /\ tick_pc' = "nav"
  /\ TickAssign(TickClearStep(TickCur))
  /\ UNCHANGED last
  /\ TickKeepsCb

\* Lines 167-206.
TickNav(sizes) ==
  \E res \in Answers(Arrived(mse_outer), sizes) :
    /\ tick_pc = "nav"
    /\ tick_pc' = "idle"
    /\ TickAssign(TickNavStep(TickCur, res, n_obstacles, written))
    /\ UNCHANGED last
    /\ TickKeepsCb

RaceNext ==
  \/ CbBegin(NavMessages, Yaws) \/ CbCheck \/ CbIncr \/ CbWriteX \/ CbWriteY
  \/ CbFlag \/ CbEnd
  \/ TickBegin(MseSamples) \/ TickRebuild({1, INNER_TRAJECTORY_SPACE}) \/ TickClear
  \/ TickNav({1, INNER_TRAJECTORY_SPACE})

SpecRace == Init /\ [][RaceNext]_vars

(***************************************************************************)
(* The properties.                                                         *)
(***************************************************************************)
Calls == tick_log.calls
TickStep == last' = "tick"

\* C1: after any sequence of callbacks, no two distinct entries among the
\* first n_obstacles entries of obstacle_map are closer than 1.0 to each
\* other (a detection closer than 1.0 to a stored obstacle is rejected).
C1_NoCloseObstacles ==
  \A i, j \in MapIdx :
    (i < n_obstacles /\ j < n_obstacles /\ i # j)
      => Dist2(obstacle_map[i], obstacle_map[j]) >= Unit * Unit

\* C1 happens: the map holds two obstacles and the last message had a
\* detection rejected as too close to a stored one.
C1_Witness == n_obstacles >= 2 /\ cb_log.dup > 0

\* C2: n_obstacles never exceeds MAX_OBSTACLES_IN_MAP, no slot past the map
\* is written, and a callback that finds the map full leaves obstacle_map and
\* n_obstacles as they were.
C2_Capacity ==
  [][/\ n_obstacles' <= MAX_OBSTACLES_IN_MAP
     /\ ~oob_write'
     /\ n_obstacles = MAX_OBSTACLES_IN_MAP
          => (obstacle_map' = obstacle_map /\ n_obstacles' = n_obstacles)]_vars

\* C2 happens: the map is full and the last message had a detection, far
\* from every stored obstacle, that was dropped.
C2_Witness == n_obstacles = MAX_OBSTACLES_IN_MAP /\ cb_log.full > 0

\* What updateTrajectory has to leave in the segment for a result of size S.
Rebuilt(S) ==
  [size |-> S, inner_trajectory |-> [i \in SpaceIdx |-> IF i < S THEN OptBuf[i] ELSE Zero]]

\* C5: after every call of updateTrajectory whose result has a size S up to
\* INNER_TRAJECTORY_SPACE, the active segment holds the optimizer's points,
\* in their order, in its first S places and <<0, 0>> in the others.
C5_RebuildCopiesAndZeroFills ==
  /\ \A k \in 1 .. Len(Calls) :
       Calls[k].res <= INNER_TRAJECTORY_SPACE => Calls[k].after = Rebuilt(Calls[k].res)
  /\ (Len(Calls) > 0 /\ Calls[Len(Calls)].res <= INNER_TRAJECTORY_SPACE)
       => full_trajectory[subtraj_index] = Rebuilt(Calls[Len(Calls)].res)

\* C5 happens: a tick rebuilt a segment after a new obstacle with a result
\* shorter than the points the segment held.
C5_Witness ==
  \E k \in 1 .. Len(Calls) :
    /\ Calls[k].at = "obstacle"
    /\ Calls[k].res > 0 /\ Calls[k].res < INNER_TRAJECTORY_LENGTH

\* C6: in every tick outer_index changes exactly when mse_outer < 0.5 is
\* found in that tick; it becomes outer_index + 1 below the last index and 0
\* exactly at the last index; and inner_index is 0 at the end of such a tick.
C6_OuterAdvance ==
  [][/\ (outer_index' # outer_index) <=> (TickStep /\ Arrived(mse_outer'))
     /\ (TickStep /\ Arrived(mse_outer'))
          => /\ outer_index' = IF outer_index < OUTER_TRAJECTORY_LENGTH - 1
                               THEN outer_index + 1 ELSE 0
             /\ (outer_index' = 0) <=> (outer_index = OUTER_TRAJECTORY_LENGTH - 1)
             /\ inner_index' = 0]_vars

\* C6 happens: a tick that commanded an inner waypoint (the inner-arrival
\* step ran) also found the last outer waypoint reached and wrapped to 0.
C6_Witness ==
  /\ last = "tick" /\ Arrived(mse_outer) /\ outer_index = 0
  /\ tick_log.cmd >= 0 /\ inner_index = 0

\* C7 as stated: no step takes outer_index or inner_index to a smaller value.
C7_NeverDecrement ==
  [][outer_index' >= outer_index /\ inner_index' >= inner_index]_vars

\* C7 as amended: outer_index gets smaller only by the wrap from the last
\* index to 0, inner_index only by the reset to 0, both only in a tick that
\* finds mse_outer < 0.5; every other step keeps them or adds one.
C7_OnlyWrapAndReset ==
  [][/\ outer_index' < outer_index
          => /\ TickStep /\ Arrived(mse_outer')
             /\ outer_index = OUTER_TRAJECTORY_LENGTH - 1 /\ outer_index' = 0
     /\ inner_index' < inner_index
          => TickStep /\ Arrived(mse_outer') /\ inner_index' = 0
     /\ outer_index' <= outer_index + 1
     /\ inner_index' <= inner_index + 1]_vars

\* C7 happens: a tick wrapped outer_index to 0 and reset an inner_index that
\* was past 0.
C7_Witness ==
  /\ last = "tick" /\ Arrived(mse_outer) /\ outer_index = 0 /\ inner_index = 0
  /\ tick_log.cmd >= 1

\* C8: the initialisation block (buildOuterTrajectory and the
\* buildInnerTrajectory calls) runs in the first tick and in no other;
\* initialized becomes true in that tick and stays true; outer_trajectory is
\* not modified by any later step.
C8_InitOnce ==
  [][/\ initialized => (initialized' /\ builds' = builds
                          /\ outer_trajectory' = outer_trajectory)
     /\ (~initialized /\ TickStep) => (initialized' /\ builds' = 1)
     /\ (~initialized /\ ~TickStep) => (~initialized' /\ builds' = 0)]_vars

\* C8 happens: after the first tick, later ticks rebuilt segments and went
\* round the outer trajectory, and a callback stored an obstacle.
C8_Witness ==
  /\ initialized /\ builds = 1 /\ n_obstacles > 0
  /\ last = "tick" /\ outer_index = 0 /\ trajectory_updated /\ Len(Calls) = 2

\* C3: under any interleaving of the callback's statements with the tick,
\* every call of the optimizer with obstacle count n finds the first n
\* entries of obstacle_map fully written.
C3_RebuildSeesWrittenEntries == \A k \in 1 .. Len(Calls) : Calls[k].complete

\* C4: obstacle_map_updated is never cleared by a tick whose rebuild did not
\* include every obstacle whose insertion (flag set included) is finished.
C4_FlagNeverLost ==
  [][(obstacle_map_updated /\ ~obstacle_map_updated' /\ cb_pc = "idle")
       => (Len(Calls') > 0 /\ Calls'[1].at = "obstacle" /\ Calls'[1].n = n_obstacles')]_vars

\* C9: a result of size 0 leaves trajectory_updated false, and no inner
\* waypoint is commanded while the active segment has size 0.
C9_DegenerateNotReady ==
  /\ (Len(Calls) > 0 /\ Calls[Len(Calls)].res = 0) => ~trajectory_updated
  /\ tick_log.cmd >= 0 => tick_log.cmd_size >= 1

\* C10: whenever the active segment has a size of 1 or more, inner_index is
\* at most that size minus one.
C10_InnerIndexClamped ==
  (initialized /\ full_trajectory[subtraj_index].size >= 1)
    => inner_index <= full_trajectory[subtraj_index].size - 1

\* INNER_TRAJECTORY_LENGTH times how far coordinate c of point k (from 1)
\* of segment i is from outer[i] + k*(outer[i+1] - outer[i])/INNER_TRAJECTORY_LENGTH.
Abs(v) == IF v >= 0 THEN v ELSE -v
NextOuter(i) == IF i = OUTER_TRAJECTORY_LENGTH - 1 THEN 0 ELSE i + 1
OffLine(i, k, c) ==
  Abs(INNER_TRAJECTORY_LENGTH
        * (full_trajectory[i].inner_trajectory[k - 1][c] - outer_trajectory[i][c])
      - k * (outer_trajectory[NextOuter(i)][c] - outer_trajectory[i][c]))

C12_FlagIffAppended ==
  [][last' = "cb" =>
       /\ n_obstacles' >= n_obstacles
       /\ cb_log'.added = n_obstacles' - n_obstacles
       /\ n_obstacles' > n_obstacles => obstacle_map_updated'
       /\ n_obstacles' = n_obstacles
            => UNCHANGED <<obstacle_map, n_obstacles, obstacle_map_updated>>
       /\ obstacle_map_updated => obstacle_map_updated']_vars

\* C12 happens: with an obstacle stored and the flag cleared by a tick, a
\* batch of a NaN distance and a duplicate has been rejected whole.
C12_Witness ==
  /\ last = "cb" /\ n_obstacles > 0 /\ ~obstacle_map_updated
  /\ cb_log.added = 0 /\ cb_log.invalid > 0 /\ cb_log.dup > 0

\* C13: stored obstacles are never changed or removed: n_obstacles never
\* decreases, and every entry obstacle_map[i] with i < n_obstacles keeps its
\* position through every tick, rebuild and callback.
C13_StoredObstaclesKept ==
  [][/\ n_obstacles' >= n_obstacles
     /\ \A i \in MapIdx : i < n_obstacles => obstacle_map'[i] = obstacle_map[i]]_vars

\* C13 happens: the map has been filled and a tick has then rebuilt the
\* active segment.
C13_Witness ==
  /\ n_obstacles = MAX_OBSTACLES_IN_MAP /\ last = "tick"
  /\ Len(Calls) = 1 /\ Calls[1].n = MAX_OBSTACLES_IN_MAP

(***************************************************************************)
(* The callback statement by statement, alone: single observations of      *)
(* every kind, ticks of a vehicle that stays 0.5 m from its waypoints      *)
(* running between two callbacks.                                          *)
(***************************************************************************)
SingleMessages == {m \in Messages : Len(m) = 1}
\* Where the vehicle is then: at the origin or away from it.
SinglePositions == {Zero, <<Unit, -Unit>>}

CbNext ==
  \/ CbBeginAt(SinglePositions, SingleMessages, Yaws) \/ CbCheck \/ CbIncr
  \/ CbWriteX \/ CbWriteY \/ CbFlag \/ CbEnd
  \/ TickAt({Zero}, {INNER_TRAJECTORY_SPACE}, {(Unit \div 2) * (Unit \div 2)})

SpecCb == Init /\ [][CbNext]_vars

\* The point 0.5 m from pos in the direction of the observation: the
\* average of its two headings plus the yaw psi.
HalfMetreAhead(obs, pos, psi) ==
  LET h == (obs.left_heading + obs.right_heading) \div 2 + psi
  IN <<pos[1] + SinDeg(h) * (Unit \div 2), pos[2] + CosDeg(h) * (Unit \div 2)>>

C15_ActiveSegmentBehind ==
  [][/\ (TickStep /\ Arrived(mse_outer'))
          => /\ subtraj_index' = IF outer_index' = 0
                                 THEN OUTER_TRAJECTORY_LENGTH - 1
                                 ELSE outer_index' - 1
             /\ Len(Calls') >= 1
             /\ LET c == Calls'[Len(Calls')]
                IN /\ c.at = "advance" /\ c.seg = subtraj_index'
                   /\ full_trajectory'[subtraj_index'] = c.after
                   /\ initialized
                        => \A i \in OuterIdx \ {subtraj_index', subtraj_index} :
                             full_trajectory'[i] = full_trajectory[i]
     /\ ~(TickStep /\ Arrived(mse_outer')) => subtraj_index' = subtraj_index
     /\ trajectory_updated'
          => subtraj_index' = (outer_index' + OUTER_TRAJECTORY_LENGTH - 1)
                                % OUTER_TRAJECTORY_LENGTH]_vars

\* C15 happens: outer_index has wrapped to 0 and the tick that wrapped it
\* rebuilt the last segment, which is the active one.
C15_Witness ==
  /\ last = "tick" /\ trajectory_updated /\ outer_index = 0
  /\ subtraj_index = OUTER_TRAJECTORY_LENGTH - 1
  /\ Len(Calls) >= 1 /\ Calls[Len(Calls)].at = "advance"
  /\ Calls[Len(Calls)].seg = OUTER_TRAJECTORY_LENGTH - 1

\* C16: once the first tick has run, every segment has
\* size <= INNER_TRAJECTORY_SPACE and every point of it at an index >= size
\* is (0,0), after the initialisation and after every rebuild.
C16_ZeroPastSize ==
  initialized
    => \A i \in OuterIdx :
         /\ full_trajectory[i].size \in 0 .. INNER_TRAJECTORY_SPACE
         /\ \A k \in SpaceIdx :
              k >= full_trajectory[i].size
                => full_trajectory[i].inner_trajectory[k] = Zero

\* C16 happens: one segment is as the initialisation left it, shorter than
\* its capacity, and another has been rebuilt to a single point.
C16_Witness ==
  /\ initialized
  /\ \E i \in OuterIdx \ rebuilt :
       full_trajectory[i].size = INNER_TRAJECTORY_LENGTH
  /\ \E i \in rebuilt : full_trajectory[i].size = 1

\* C17: the obstacle-triggered rebuild of a tick (line 163, taken with
\* obstacle_map_updated true) calls the optimizer once, on the active
\* segment, and changes the points and size of that segment only:
\* outer_index, inner_index, subtraj_index, trajectory_updated,
\* outer_trajectory, obstacle_map, n_obstacles and every other segment are
\* as before; line 164 then leaves obstacle_map_updated false and changes
\* nothing else.
C17_RebuildFrame ==
  [][/\ (tick_pc = "rebuild" /\ tick_pc' = "clear")
          => /\ Calls' = Append(Calls, Calls'[Len(Calls')])
             /\ Calls'[Len(Calls')].at = "obstacle"
             /\ Calls'[Len(Calls')].seg = subtraj_index
             /\ full_trajectory'[subtraj_index] = Calls'[Len(Calls')].after
             /\ \A i \in OuterIdx \ {subtraj_index} :
                  full_trajectory'[i] = full_trajectory[i]
             /\ UNCHANGED <<outer_index, inner_index, subtraj_index,
                            trajectory_updated, outer_trajectory, obstacle_map,
                            n_obstacles, obstacle_map_updated, initialized>>
     /\ (tick_pc = "clear" /\ tick_pc' = "nav")
          => /\ ~obstacle_map_updated'
             /\ UNCHANGED <<outer_index, inner_index, subtraj_index,
                            trajectory_updated, outer_trajectory, obstacle_map,
                            n_obstacles, full_trajectory, tick_log, initialized>>
     /\ (tick_pc = "idle" /\ tick_pc' = "nav")
          => ~obstacle_map_updated /\ Calls' = <<>>]_vars

\* C17 happens: with the vehicle under way on a later segment, a tick has
\* rebuilt the active segment for a new obstacle and cleared the flag.
C17_Witness ==
  /\ tick_pc = "nav" /\ ~obstacle_map_updated /\ trajectory_updated
  /\ inner_index > 0 /\ subtraj_index > 0 /\ n_obstacles > 0
  /\ Len(Calls) = 1 /\ Calls[1].at = "obstacle" /\ Calls[1].seg = subtraj_index

\* C18: trajectory_updated is false from the start until the first tick that
\* finds mse_outer < 0.5, becomes true in that tick and is never false
\* again; so in every tick before the first outer arrival no inner waypoint
\* is commanded and inner_index stays 0, obstacle-triggered rebuilds or not.
C18_NotReadyUntilArrival ==
  /\ ~trajectory_updated
  /\ [][/\ trajectory_updated => trajectory_updated'
        /\ ~trajectory_updated
             => /\ trajectory_updated' <=> (TickStep /\ Arrived(mse_outer'))
                /\ inner_index = 0 /\ inner_index' = 0
                /\ tick_log'.cmd = -1]_vars

\* C18 happens: before any outer arrival, a tick found the vehicle within
\* 0.5 of WP_INNER and rebuilt the active segment for a new obstacle, and
\* commanded nothing.
C18_Witness ==
  /\ last = "tick" /\ ~trajectory_updated /\ Arrived(mse_inner)
  /\ Len(Calls) = 1 /\ Calls[1].at = "obstacle" /\ Calls[1].res > 0
  /\ tick_log.cmd = -1 /\ inner_index = 0

\* C19: between two outer advances the inner commands go through the active
\* segment in order: a tick commands an inner waypoint exactly when it finds
\* mse_inner < 0.5 with trajectory_updated true, the index it commands is
\* inner_index, and inner_index then moves to the next index, or stays once
\* it is size - 1; nothing else changes inner_index until the next outer
\* advance sets it to 0.  So with the size unchanged the commanded indices
\* are 0, 1, 2, ... without a gap, then size - 1 again and again.
C19_InnerCommandsInOrder ==
  [][/\ ~TickStep => inner_index' = inner_index
     /\ TickStep
          => /\ (tick_log'.cmd >= 0) <=> (Arrived(mse_inner') /\ trajectory_updated)
             /\ tick_log'.cmd >= 0
                  => /\ tick_log'.cmd = inner_index
                     /\ tick_log'.cmd_size = full_trajectory'[subtraj_index].size
             /\ ~Arrived(mse_outer')
                  => inner_index' = IF /\ tick_log'.cmd >= 0
                                       /\ inner_index < tick_log'.cmd_size - 1
                                    THEN inner_index + 1
                                    ELSE inner_index
             /\ Arrived(mse_outer') => inner_index' = 0]_vars

\* C19 happens: the indices below it commanded one after the other, a tick
\* has commanded the last index of a full segment and inner_index stays there.
C19_Witness ==
  /\ last = "tick" /\ ~Arrived(mse_outer)
  /\ tick_log.cmd_size = INNER_TRAJECTORY_SPACE
  /\ tick_log.cmd = INNER_TRAJECTORY_SPACE - 1
  /\ inner_index = INNER_TRAJECTORY_SPACE - 1
====
